---- MODULE Spec2Model ----
(***************************************************************************)
(* Client-side session store, realtime channel manager, notification bell  *)
(* and chat page of the task tracker, as state machines.                   *)
(*                                                                         *)
(* The browser is single-threaded: every action below is one task of the   *)
(* event loop (a click handler, the continuation of an awaited REST call,  *)
(* a socket event, a timer, or a React effect run after a commit).         *)
(***************************************************************************)
EXTENDS Integers, Sequences, FiniteSets, Bags

\* ------------------------------------------------------------------ bounds
MaxReq   == 2   \* REST requests in flight through the axios instance
MaxDepth == 2   \* nested refresh calls one request may be waiting for
ChanReq  == 1   \* REST requests in flight, where the channel is modelled too
ChanDepth == 1  \* nested refresh calls, where the channel is modelled too
MaxTok   == 3   \* highest access credential the server issues in one run
MaxSock  == 2   \* WebSocket objects alive at once
MaxTimer == 2   \* reconnect timers pending at once
MaxNotif == 2   \* notifications the server creates
MaxList  == 3   \* entries of the pushed notification list
MaxCalls == 2   \* REST calls of the notification bell in flight

PushCalls == 1  \* the same, where the bell runs beside the push channel
MaxConv  == 2   \* conversations
MaxMsg   == 2   \* chat messages the server creates
MaxStem  == 2   \* characters of a file name before its last part
MaxChatCalls == 1  \* REST calls of the Chat page in flight

\* --------------------------------------------------------------- constants
NoToken == 0    \* null credential (localStorage.getItem gives null)
NoUser  == 0    \* user === null
Me      == 1    \* the identity /auth/me and /auth/login return

VARIABLES
    \* AuthProvider (AuthContext.js)
    user,           \* useState(null)
    token,          \* useState(localStorage.getItem('token'))
    refreshToken,   \* useState(localStorage.getItem('refreshToken'))
    lsToken,        \* localStorage 'token'
    lsRefresh,      \* localStorage 'refreshToken'
    axiosAuth,      \* axios.defaults.headers.common['Authorization']
    authDeps,       \* [token, refreshToken] of the last run of the auth effect
    icRT,           \* refreshToken captured by the installed interceptor
    reqs,           \* requests in flight, each with the refresh calls it waits for
    nextTok,        \* next access credential the server issues
    teardownRuns,   \* runs of logout() from the interceptor's catch since the last login
    lastRefresh,    \* outcome of the latest response to a refresh call
    revokes,        \* which logout() the provider has: that of AuthContext.js
                    \* (FALSE) or the one of its second copy, which first
                    \* posts /auth/logout (TRUE)
    lastLogout      \* how the revocation of the logout() that completed last
                    \* went: "none" | "skipped" | "ok" | "failed"

authVars == <<user, token, refreshToken, lsToken, lsRefresh, axiosAuth,
              authDeps, icRT, reqs, nextTok, teardownRuns, lastRefresh,
              revokes, lastLogout>>

VARIABLES
    \* WebSocketProvider (WebSocketContext.js)
    exposeToken,    \* whether the value of AuthContext.Provider carries token
    isConnected,    \* useState(false)
    wsRef,          \* wsRef.current: a socket, or 0 for null
    reconnectRef,   \* reconnectTimeoutRef.current: a timer id, or 0 for null
    socks,          \* the WebSocket objects and the closure of their handlers
    timers,         \* the reconnect timers and the closure of their callback
    wsDeps          \* [token, user] of the last run of the connect effect

wsVars == <<exposeToken, isConnected, wsRef, reconnectRef, socks, timers, wsDeps>>

VARIABLES
    \* caches of WebSocketProvider (WebSocketContext.js)
    notifications,      \* useState([]): pushed notifications, newest first
    notificationCache,  \* notificationCacheRef.current: identifiers seen
    chatMessages        \* useState({}): conversation id -> pushed or sent messages

cacheVars == <<notifications, notificationCache, chatMessages>>

VARIABLES
    \* the server, as far as the client's calls observe it
    srvNotifs,      \* notification id -> "absent" | "unread" | "read"
    srvConvs,       \* conversation id -> "absent" | "plain" | "pinned"
    srvMsgs,        \* the messages created, in creation order: [conv, sender]
    pushed          \* the messages the server has pushed to the channel

srvVars == <<srvNotifs, srvConvs, srvMsgs, pushed>>

VARIABLES
    \* NotificationBell (NotificationBell.js), mounted with the layout
    bellMounted,    \* whether the component is mounted
    bellNotifs,     \* useState([]): the fetched list, entries [id, read]
    unreadCount,    \* useState(0)
    isOpen,         \* useState(false)
    bellLoading,    \* useState(false)
    bellCalls,      \* its REST calls in flight
    lastBell        \* the call whose continuation ran last

bellVars == <<bellMounted, bellNotifs, unreadCount, isOpen, bellLoading,
              bellCalls, lastBell>>

VARIABLES
    \* the Chat page (pages/Chat.js)
    chatMounted,    \* whether the page is mounted
    conversations,  \* useState([]): entries [id, pinned]
    selectedConv,   \* useState(null): the id of the conversation shown, or 0
    messages,       \* useState([]): the message ids shown
    chatCalls       \* its REST calls in flight

chatVars == <<chatMounted, conversations, selectedConv, messages, chatCalls>>

VARIABLES
    \* the file inputs of the Chat page and of TaskDetail
    fileName,       \* file.name of the file chosen, a sequence of characters
    fileSize,       \* file.size, in bytes
    uploadPage,     \* the page whose handleFileUpload ran: "none" | "chat" | "task"
    uploadToast,    \* the validation error it showed: "none" | "type" | "size"
    uploadCalls     \* REST upload calls it dispatched

uploadVars == <<fileName, fileSize, uploadPage, uploadToast, uploadCalls>>

VARIABLES
    \* the provider's handling of inbound frames
    soundPref,      \* localStorage 'notificationSoundEnabled': "unset" | "true" | "false"
    lastFrame,      \* the frame ws.onmessage handled last, and whether the sound played
    typingUsers,    \* per conversation: the user shown as typing, or NoUser for null
    readReceipts,   \* per conversation: the receipt held, [user, ids], or NoReceipt
    appMounted      \* the component tree is mounted (no render has thrown)

alertVars == <<soundPref, lastFrame, typingUsers, readReceipts, appMounted>>

VARIABLES
    lastSend,       \* the last call of sendTyping: whether it sent a frame; seq
                    \* alternates from one call to the next
    typingOut,      \* per conversation: the last typing frame put on the
                    \* socket for it was a start (is_typing true)
    typingTimeoutRef \* the conversation whose stop the pending timeout of the
                    \* Chat page will send, NoConv when none is pending

typingVars == <<lastSend, typingOut, typingTimeoutRef>>

VARIABLES
    chatToast       \* the toast the Chat page showed last, "none" before the first

toastVars == <<chatToast>>

viewVars == <<uploadVars, alertVars, typingVars, toastVars>>

vars == <<authVars, wsVars, cacheVars, srvVars, bellVars, chatVars, viewVars>>

\* ------------------------------------------------------------ session store
ReqIds == 1..(IF MaxReq > ChanReq THEN MaxReq ELSE ChanReq)

\* A request in flight.  depth = 0: the request itself awaits its response.
\* depth = d > 0: the interceptor of the request awaits a refresh call, whose
\* own interceptor awaits a further refresh call, ... d deep; the top call
\* awaits its response.  retry is the _retry flag of the top call's config
\* and rt the refreshToken closed over by the interceptor that was installed
\* when the top call was dispatched (NoToken: none installed, or null);
\* auth is the credential in the Authorization header of the top call; crt
\* is the refreshToken closed over by the initAuth that awaits the request.
FreeReq == [kind |-> "none", depth |-> 0, retry |-> FALSE, rt |-> NoToken,
            auth |-> NoToken, crt |-> NoToken]

FreeSlots == {s \in ReqIds : reqs[s].kind = "none"}

LowestFree == CHOOSE s \in FreeSlots : \A t \in FreeSlots : s <= t

InFlight == Cardinality({s \in ReqIds : reqs[s].kind # "none"})

RefreshInFlight == Cardinality({s \in ReqIds : reqs[s].kind # "none" /\ reqs[s].depth > 0})

Bump(n) == IF n < 2 THEN n + 1 ELSE n

AuthStore(revoking) ==
    /\ revokes = revoking
    /\ lastLogout = "none"
    /\ user = NoUser
    /\ lsToken \in {NoToken, 1}
    /\ lsRefresh = lsToken
    /\ token = lsToken
    /\ refreshToken = lsRefresh
    /\ axiosAuth = NoToken
    /\ authDeps = <<>>
    /\ icRT = NoToken
    /\ reqs = [s \in ReqIds |-> FreeReq]
    /\ nextTok = 2
    /\ teardownRuns = 0
    /\ lastRefresh = "none"

\* The provider App.js mounts is that of AuthContext.js.
AuthInit == AuthStore(FALSE)

\* logout(): the state it leaves.
LoggedOutState ==
    /\ lsToken' = NoToken
    /\ lsRefresh' = NoToken
    /\ token' = NoToken
    /\ refreshToken' = NoToken
    /\ user' = NoUser
    /\ axiosAuth' = NoToken

\* POST /auth/logout of the revoking logout(), as it is dispatched.
LogoutCall == [kind |-> "logout", depth |-> 0, retry |-> FALSE, rt |-> icRT,
               auth |-> axiosAuth, crt |-> NoToken]

\* rq with n more revoking logout() calls dispatched.
WithLogouts(rq, n) ==
    [t \in ReqIds |->
        IF rq[t].kind = "none"
           /\ Cardinality({u \in ReqIds : u < t /\ rq[u].kind = "none"}) < n
        THEN LogoutCall ELSE rq[t]]

\* A revocation that succeeded only: what C15 is tested against.
ClearsOnSuccess(ok) == ok

\* Whether the revoking logout() clears the local state after its POST was
\* answered: the clearing is in its finally block.
ClearsAfter(ok) == TRUE

\* The logout button of the layout: logout().  The revoking logout() first
\* posts /auth/logout when it holds a refresh credential.
Logout(cap) ==
    /\ user # NoUser
    /\ IF revokes /\ refreshToken # NoToken
       THEN /\ InFlight < cap
            /\ reqs' = WithLogouts(reqs, 1)
            /\ UNCHANGED <<user, token, refreshToken, lsToken, lsRefresh, axiosAuth,
                           lastLogout>>
       ELSE /\ LoggedOutState
            /\ lastLogout' = "skipped"
            /\ UNCHANGED reqs
    /\ UNCHANGED <<authDeps, icRT, nextTok, teardownRuns, lastRefresh, revokes>>
    /\ UNCHANGED <<wsVars, cacheVars, srvVars, bellVars, chatVars, viewVars>>

\* login(email, password) with valid credentials.
Login ==
    /\ user = NoUser
    /\ nextTok <= MaxTok
    /\ lsToken' = nextTok
    /\ lsRefresh' = 1
    /\ token' = nextTok
    /\ refreshToken' = 1
    /\ user' = Me
    /\ axiosAuth' = nextTok
    /\ nextTok' = nextTok + 1
    /\ teardownRuns' = 0
    /\ lastRefresh' = "none"
    /\ lastLogout' = "none"
    /\ UNCHANGED <<authDeps, icRT, reqs, revokes>>
    /\ UNCHANGED <<wsVars, cacheVars, srvVars, bellVars, chatVars, viewVars>>

\* The effect of AuthProvider, run after a commit that changed token or
\* refreshToken: the previous interceptor is ejected, initAuth() dispatches
\* GET /auth/me while no interceptor is installed, then the new interceptor
\* is installed.
AuthEffect(cap) ==
    /\ authDeps # <<token, refreshToken>>
    /\ authDeps' = <<token, refreshToken>>
    /\ icRT' = refreshToken
    /\ IF token # NoToken
       THEN /\ InFlight < cap
            /\ axiosAuth' = token
            /\ reqs' = [reqs EXCEPT ![LowestFree] =
                          [kind |-> "me", depth |-> 0, retry |-> FALSE, rt |-> NoToken,
                           auth |-> token, crt |-> refreshToken]]
       ELSE UNCHANGED <<axiosAuth, reqs>>
    /\ UNCHANGED <<user, token, refreshToken, lsToken, lsRefresh, nextTok,
                   teardownRuns, lastRefresh, revokes, lastLogout>>
    /\ UNCHANGED <<wsVars, cacheVars, srvVars, bellVars, chatVars, viewVars>>

\* A REST call of the view layer, dispatched through the axios instance.
IssueRequest(cap) ==
    /\ user # NoUser
    /\ InFlight < cap
    /\ reqs' = [reqs EXCEPT ![LowestFree] =
                  [kind |-> "api", depth |-> 0, retry |-> FALSE, rt |-> icRT,
                   auth |-> axiosAuth, crt |-> NoToken]]
    /\ UNCHANGED <<user, token, refreshToken, lsToken, lsRefresh, axiosAuth,
                   authDeps, icRT, nextTok, teardownRuns, lastRefresh,
                   revokes, lastLogout>>
    /\ UNCHANGED <<wsVars, cacheVars, srvVars, bellVars, chatVars, viewVars>>

\* An interceptor that does not look at the _retry flag: what C14 is tested
\* against.
InterceptsRetried(r, outcome) ==
    outcome = "unauthorized" /\ r.rt # NoToken

\* Whether the interceptor answers a failure of request r by a refresh call.
Intercepts(r, outcome) ==
    outcome = "unauthorized" /\ r.rt # NoToken /\ ~r.retry

\* The response to the top call of slot s is a success.
RespondOk(s) ==
    LET r == reqs[s] IN
    /\ r.kind # "none"
    /\ IF r.depth = 0
       THEN \* resolved to the caller: initAuth stores the identity, the
            \* revoking logout() goes on to its finally block
            /\ reqs' = [reqs EXCEPT ![s] = FreeReq]
            /\ IF r.kind = "logout"
               THEN /\ IF ClearsAfter(TRUE) THEN LoggedOutState
                       ELSE UNCHANGED <<user, token, refreshToken, lsToken,
                                        lsRefresh, axiosAuth>>
                    /\ lastLogout' = "ok"
               ELSE /\ user' = IF r.kind = "me" THEN Me ELSE user
                    /\ UNCHANGED <<token, refreshToken, lsToken, lsRefresh,
                                   axiosAuth, lastLogout>>
            /\ UNCHANGED <<nextTok, lastRefresh>>
       ELSE \* the refresh call resolved: store the credential, retry the
            \* request the interceptor was handling
            /\ nextTok <= MaxTok
            /\ lsToken' = nextTok
            /\ token' = nextTok
            /\ axiosAuth' = nextTok
            /\ nextTok' = nextTok + 1
            /\ lastRefresh' = "ok"
            /\ reqs' = [reqs EXCEPT ![s] =
                          [r EXCEPT !.depth = r.depth - 1, !.retry = TRUE, !.rt = icRT,
                                    !.auth = nextTok]]
            /\ UNCHANGED <<user, refreshToken, lsRefresh, lastLogout>>
    /\ UNCHANGED <<authDeps, icRT, teardownRuns, revokes>>
    /\ UNCHANGED <<wsVars, cacheVars, srvVars, bellVars, chatVars, viewVars>>

\* The response to the top call of slot s is a failure the interceptor
\* answers with a refresh call.
RespondRefresh(s, maxDepth) ==
    LET r == reqs[s] IN
    /\ r.kind # "none"
    /\ Intercepts(r, "unauthorized")
    /\ r.depth < maxDepth
    /\ reqs' = [reqs EXCEPT ![s] =
                  [r EXCEPT !.depth = r.depth + 1, !.retry = FALSE, !.rt = icRT,
                            !.auth = axiosAuth]]
    /\ lastRefresh' = IF r.depth > 0 THEN "failed" ELSE lastRefresh
    /\ UNCHANGED <<user, token, refreshToken, lsToken, lsRefresh, axiosAuth,
                   authDeps, icRT, nextTok, teardownRuns, revokes, lastLogout>>
    /\ UNCHANGED <<wsVars, cacheVars, srvVars, bellVars, chatVars, viewVars>>

\* The response to the top call of slot s is a failure that is rejected:
\* every interceptor waiting below it runs its catch block (logout()),
\* initAuth's catch block runs logout() too, and a revoking logout() that
\* awaited the call goes on to its finally block.  A logout() called from a
\* catch block clears the state at once, or, when it is the revoking one
\* and closed over a refresh credential, posts /auth/logout first.
RespondReject(s, outcome) ==
    LET r == reqs[s]
        fromMe == IF r.kind = "me" THEN 1 ELSE 0
        runs == r.depth + fromMe
        posts == IF ~revokes THEN 0
                 ELSE r.depth + (IF r.crt # NoToken THEN fromMe ELSE 0)
        finally == r.kind = "logout" /\ ClearsAfter(FALSE)
    IN
    /\ r.kind # "none"
    /\ ~Intercepts(r, outcome)
    /\ posts <= Cardinality(FreeSlots) + 1
    /\ reqs' = WithLogouts([reqs EXCEPT ![s] = FreeReq], posts)
    /\ lastRefresh' = IF r.depth > 0 THEN "failed" ELSE lastRefresh
    /\ teardownRuns' = IF r.depth > 1 THEN 2
                       ELSE IF r.depth = 1 THEN Bump(teardownRuns)
                       ELSE teardownRuns
    /\ IF finally \/ runs > posts
       THEN /\ LoggedOutState
            /\ lastLogout' = IF r.kind = "logout" THEN "failed" ELSE "skipped"
       ELSE UNCHANGED <<user, token, refreshToken, lsToken, lsRefresh, axiosAuth,
                        lastLogout>>
    /\ UNCHANGED <<authDeps, icRT, nextTok, revokes>>
    /\ UNCHANGED <<wsVars, cacheVars, srvVars, bellVars, chatVars, viewVars>>

\* -------------------------------------------------- realtime channel manager
SockIds  == 1..MaxSock
TimerIds == 1..MaxTimer

\* st is the socket's readyState ("none": no such object any more); ctok and
\* cuser are the token and user closed over by the connect() that made it,
\* which its onclose handler calls again.
NoSock  == [st |-> "none", ctok |-> NoToken, cuser |-> NoUser]
NoTimer == [pending |-> FALSE, ctok |-> NoToken, cuser |-> NoUser]

\* const { user, token } = useAuth(): what WebSocketProvider reads as token.
SeenToken == IF exposeToken THEN token ELSE NoToken

FreeSocks == {k \in SockIds : socks[k].st = "none"}
NewSock == CHOOSE k \in FreeSocks : \A j \in FreeSocks : k <= j

FreeTimers == {t \in TimerIds : ~timers[t].pending}
NewTimer == CHOOSE t \in FreeTimers : \A u \in FreeTimers : t <= u

Live(k) == socks[k].st \in {"connecting", "open"}

WsInit ==
    /\ exposeToken \in BOOLEAN
    /\ isConnected = FALSE
    /\ wsRef = 0
    /\ reconnectRef = 0
    /\ socks = [k \in SockIds |-> NoSock]
    /\ timers = [t \in TimerIds |-> NoTimer]
    /\ wsDeps = <<>>

\* The connect effect of WebSocketProvider, run after a commit that changed
\* token or user: first the cleanup of the previous run (clearTimeout of the
\* referenced timer, close() of the referenced socket), then connect() when
\* both token and user are set.
WsEffect ==
    LET first == wsDeps = <<>>
        cleared == IF ~first /\ reconnectRef # 0
                   THEN [timers EXCEPT ![reconnectRef] = NoTimer]
                   ELSE timers
        closed == IF ~first /\ wsRef # 0
                  THEN [socks EXCEPT ![wsRef].st =
                          IF Live(wsRef) THEN "closing" ELSE @]
                  ELSE socks
        free == {k \in SockIds : closed[k].st = "none"}
        new == CHOOSE k \in free : \A j \in free : k <= j
    IN
    /\ wsDeps # <<SeenToken, user>>
    /\ wsDeps' = <<SeenToken, user>>
    /\ timers' = cleared
    /\ IF SeenToken # NoToken /\ user # NoUser
       THEN /\ free # {}
            /\ socks' = [closed EXCEPT ![new] =
                           [st |-> "connecting", ctok |-> SeenToken, cuser |-> user]]
            /\ wsRef' = new
       ELSE /\ socks' = closed
            /\ wsRef' = wsRef
    /\ UNCHANGED <<exposeToken, isConnected, reconnectRef>>
    /\ UNCHANGED <<authVars, cacheVars, srvVars, bellVars, chatVars, viewVars>>

\* ws.onopen
WsOpen(k) ==
    /\ socks[k].st = "connecting"
    /\ socks' = [socks EXCEPT ![k].st = "open"]
    /\ isConnected' = TRUE
    /\ UNCHANGED <<exposeToken, wsRef, reconnectRef, timers, wsDeps>>
    /\ UNCHANGED <<authVars, cacheVars, srvVars, bellVars, chatVars, viewVars>>

\* ws.onclose, of a socket that failed to connect, was dropped, or was
\* closed by the cleanup: clears the flag and the reference, schedules
\* connect() after the fixed delay.
WsClose(k) ==
    /\ socks[k].st \in {"connecting", "open", "closing"}
    /\ FreeTimers # {}
    /\ isConnected' = FALSE
    /\ wsRef' = 0
    /\ timers' = [timers EXCEPT ![NewTimer] =
                    [pending |-> TRUE, ctok |-> socks[k].ctok, cuser |-> socks[k].cuser]]
    /\ reconnectRef' = NewTimer
    /\ socks' = [socks EXCEPT ![k] = NoSock]
    /\ UNCHANGED <<exposeToken, wsDeps>>
    /\ UNCHANGED <<authVars, cacheVars, srvVars, bellVars, chatVars, viewVars>>

\* The reconnect timer fires: connect() of the closure that scheduled it.
TimerFire(t) ==
    /\ timers[t].pending
    /\ timers' = [timers EXCEPT ![t] = NoTimer]
    /\ IF timers[t].ctok # NoToken /\ timers[t].cuser # NoUser
       THEN /\ FreeSocks # {}
            /\ socks' = [socks EXCEPT ![NewSock] =
                           [st |-> "connecting", ctok |-> timers[t].ctok,
                            cuser |-> timers[t].cuser]]
            /\ wsRef' = NewSock
       ELSE UNCHANGED <<socks, wsRef>>
    /\ UNCHANGED <<exposeToken, isConnected, reconnectRef, wsDeps>>
    /\ UNCHANGED <<authVars, cacheVars, srvVars, bellVars, chatVars, viewVars>>

\* ------------------------------------------------------------------ server
NotifIds == 1..MaxNotif
ConvIds  == 1..MaxConv
NoConv == 0     \* selectedConv === null
MsgIds   == 1..MaxMsg

SrvInit ==
    /\ srvNotifs = [n \in NotifIds |-> "absent"]
    /\ srvConvs = [c \in ConvIds |-> "absent"]
    /\ srvMsgs = <<>>
    /\ pushed = {}

\* The server creates a notification for the user (a task was assigned, ...).
ServerNotify(n) ==
    /\ srvNotifs[n] = "absent"
    /\ \A m \in NotifIds : m < n => srvNotifs[m] # "absent"
    /\ srvNotifs' = [srvNotifs EXCEPT ![n] = "unread"]
    /\ UNCHANGED <<srvConvs, srvMsgs, pushed>>
    /\ UNCHANGED <<authVars, wsVars, cacheVars, bellVars, chatVars, viewVars>>

\* ---------------------------------------------------------- inbound frames
\* What ws.onmessage handled: the type of the frame, the identifier it
\* carried (0 when the handler reads none) and whether
\* playNotificationSound() made a sound for it; seq alternates from one
\* frame to the next.  For a typing or read_receipt frame: conversation_id,
\* user_id, is_typing and message_ids of its payload.
Frame(type, n, played) ==
    [type |-> type, n |-> n, played |-> played, seq |-> 1 - lastFrame.seq,
     conv |-> 0, who |-> NoUser, on |-> FALSE, ids |-> {}]

NoFrame == [type |-> "none", n |-> 0, played |-> FALSE, seq |-> 0,
            conv |-> 0, who |-> NoUser, on |-> FALSE, ids |-> {}]

Peer == 2       \* another participant
Peer2 == 3      \* a third participant

Typers == {Peer, Peer2}

\* No read_receipt frame was handled for the conversation.
NoReceipt == [user |-> NoUser, ids |-> {}]

\* JSON.parse of the stored preference.
JsonParse(pref) == pref = "true"

\* playNotificationSound: soundEnabled === null || JSON.parse(soundEnabled)
SoundEnabled(pref) == pref = "unset" \/ JsonParse(pref)

SoundPrefs == {"unset", "true", "false"}

AlertIdle ==
    /\ soundPref = "unset"
    /\ lastFrame = NoFrame
    /\ typingUsers = [c \in ConvIds |-> NoUser]
    /\ readReceipts = [c \in ConvIds |-> NoReceipt]
    /\ appMounted = TRUE

\* An updater without the spread of prev: what C24 is tested against.
SlotsReplaced(prev, c, u, isTyping) ==
    [x \in ConvIds |-> IF x = c /\ isTyping THEN u ELSE NoUser]

\* The updater of setTypingUsers: {...prev, [conversation_id]: is_typing ?
\* {user_id, user_name} : null}
OnTyping(prev, c, u, isTyping) ==
    [prev EXCEPT ![c] = IF isTyping THEN u ELSE NoUser]

\* The updater of setReadReceipts: {...prev, [conversation_id]: {user_id,
\* message_ids}}
OnReadReceipt(prev, c, u, ids) ==
    [prev EXCEPT ![c] = [user |-> u, ids |-> ids]]

\* ws.onmessage, case 'typing', on open socket k: participant u of
\* conversation c started or stopped typing.
PushTyping(k, c, u, isTyping) ==
    /\ socks[k].st = "open"
    /\ srvConvs[c] # "absent"
    /\ typingUsers' = OnTyping(typingUsers, c, u, isTyping)
    /\ lastFrame' = [Frame("typing", 0, FALSE) EXCEPT !.conv = c, !.who = u, !.on = isTyping]
    /\ UNCHANGED <<soundPref, readReceipts, appMounted>>
    /\ UNCHANGED <<authVars, wsVars, cacheVars, srvVars, bellVars, chatVars, uploadVars, typingVars, toastVars>>

\* ws.onmessage, case 'read_receipt', on open socket k: participant u of
\* conversation c read the messages ids.
PushReadReceipt(k, c, u, ids) ==
    /\ socks[k].st = "open"
    /\ srvConvs[c] # "absent"
    /\ readReceipts' = OnReadReceipt(readReceipts, c, u, ids)
    /\ lastFrame' = [Frame("read_receipt", 0, FALSE) EXCEPT !.conv = c, !.who = u, !.ids = ids]
    /\ UNCHANGED <<soundPref, typingUsers, appMounted>>
    /\ UNCHANGED <<authVars, wsVars, cacheVars, srvVars, bellVars, chatVars, uploadVars, typingVars, toastVars>>

\* A frame the handler drops: 'pong' (case 'pong'), "unknown" (a tag no
\* case names: default, logged) or "garbage" (JSON.parse throws, the frame
\* is no object, or it is a notification without payload: catch, logged).
DroppedTypes == {"pong", "unknown", "garbage"}

PushDropped(k, type) ==
    /\ socks[k].st = "open"
    /\ lastFrame' = Frame(type, 0, FALSE)
    /\ UNCHANGED <<soundPref, typingUsers, readReceipts, appMounted>>
    /\ UNCHANGED <<authVars, wsVars, cacheVars, srvVars, bellVars, chatVars, uploadVars, typingVars, toastVars>>

\* ws.onmessage, case 'pong', on open socket k.
PushPong(k) == PushDropped(k, "pong")

\* The tags whose case hands React an updater that reads data.data.
UpdaterTypes == {"chat_message", "typing", "read_receipt"}

\* ws.onmessage on open socket k, for a frame that is JSON and carries a tag
\* of UpdaterTypes but no payload (data.data undefined or null).  The case
\* queues its updater and returns (for chat_message, through the catch);
\* the updater throws when React runs it in the next render, no error
\* boundary is above WebSocketProvider, and React unmounts the tree: the
\* cleanup of the connect effect clears the timer and closes the socket the
\* ref holds.  What the unmounted tree held can no longer be observed and
\* is left as it was.
PushNoPayload(k, type) ==
    /\ socks[k].st = "open"
    /\ type \in UpdaterTypes
    /\ appMounted' = FALSE
    /\ lastFrame' = Frame(type, 0, FALSE)
    /\ timers' = IF reconnectRef # 0 THEN [timers EXCEPT ![reconnectRef] = NoTimer]
                  ELSE timers
    /\ socks' = IF wsRef # 0 /\ Live(wsRef) THEN [socks EXCEPT ![wsRef].st = "closing"]
                 ELSE socks
    /\ UNCHANGED <<exposeToken, isConnected, wsRef, reconnectRef, wsDeps>>
    /\ UNCHANGED <<soundPref, typingUsers, readReceipts>>
    /\ UNCHANGED <<authVars, cacheVars, srvVars, bellVars, chatVars, uploadVars, typingVars, toastVars>>

\* --------------------------------------------------------- outbound frames
TypingIdle ==
    /\ lastSend = [seq |-> 0, sent |-> FALSE]
    /\ typingOut = [c \in ConvIds |-> FALSE]
    /\ typingTimeoutRef = NoConv

\* wsRef.current && wsRef.current.readyState === WebSocket.OPEN
RefOpen == wsRef # 0 /\ socks[wsRef].st = "open"

\* sendTyping(conversationId, isTyping), called by a page of the logged-in
\* user: one frame on the socket the ref holds when that socket is open,
\* nothing otherwise.
\* What sendTyping does to the socket: a frame goes out only on an open socket.
WsSend(c, isTyping) ==
    /\ lastSend' = [seq |-> 1 - lastSend.seq, sent |-> RefOpen]
    /\ typingOut' = IF RefOpen THEN [typingOut EXCEPT ![c] = isTyping] ELSE typingOut

SendTyping(c, isTyping) ==
    /\ user # NoUser
    /\ WsSend(c, isTyping)
    /\ UNCHANGED typingTimeoutRef
    /\ UNCHANGED <<authVars, wsVars, cacheVars, srvVars, bellVars, chatVars,
                   uploadVars, alertVars, toastVars>>

\* ------------------------------------------------------- notification cache
CacheInit ==
    /\ notifications = <<>>
    /\ notificationCache = {}
    /\ chatMessages = [c \in ConvIds |-> <<>>]

\* The notifications state after ws.onmessage handled a notification frame
\* carrying identifier n.
OnNotification(list, cache, n) ==
    IF n \notin cache THEN <<n>> \o list ELSE list

\* ws.onmessage, case 'notification', on open socket k: the server pushes
\* notification n (a push may be repeated, the channel is best effort).
PushNotification(k, n) ==
    /\ socks[k].st = "open"
    /\ srvNotifs[n] # "absent"
    /\ Len(notifications) < MaxList
    /\ notifications' = OnNotification(notifications, notificationCache, n)
    /\ notificationCache' = notificationCache \cup {n}
    /\ lastFrame' = Frame("notification", n,
                          n \notin notificationCache /\ SoundEnabled(soundPref))
    /\ UNCHANGED <<soundPref, typingUsers, readReceipts, appMounted>>
    /\ UNCHANGED chatMessages
    /\ UNCHANGED <<authVars, wsVars, srvVars, bellVars, chatVars, uploadVars, typingVars, toastVars>>

\* clearNotificationCache(), which the provider hands to its consumers.
ClearNotificationCache ==
    /\ notificationCache # {}
    /\ notificationCache' = {}
    /\ UNCHANGED <<notifications, chatMessages>>
    /\ UNCHANGED <<authVars, wsVars, srvVars, bellVars, chatVars, viewVars>>

\* -------------------------------------------------------- notification bell
\* A REST call of the bell, one element of the bag bellCalls.  st: "sent" (on
\* its way), "ok" / "fail" (answered, the continuation not yet run).  n: the
\* notification of a mark-read call, or the count a poll was answered with.
\* list: the notifications array the handler closed over when it was called,
\* or the list a fetch was answered with.
Sent(kind, n, list) == [kind |-> kind, st |-> "sent", n |-> n, list |-> list]

Calls == BagToSet(bellCalls)

CanCall(cap) == BagCardinality(bellCalls) < cap

BellInit ==
    /\ bellMounted = FALSE
    /\ bellNotifs = <<>>
    /\ unreadCount = 0
    /\ isOpen = FALSE
    /\ bellLoading = FALSE
    /\ bellCalls = EmptyBag
    /\ lastBell = [kind |-> "none", ok |-> FALSE, before |-> 0, stale |-> FALSE]

\* GET /notifications/unread-count and GET /notifications?limit=20, as the
\* server answers them: the notifications newest first.
SrvUnread == Cardinality({n \in NotifIds : srvNotifs[n] = "unread"})

SrvCount == Cardinality({n \in NotifIds : srvNotifs[n] # "absent"})

SrvList == [i \in 1..SrvCount |->
              [id |-> SrvCount + 1 - i, read |-> srvNotifs[SrvCount + 1 - i] = "read"]]

UnreadIn(list) == Cardinality({i \in 1..Len(list) : ~list[i].read})

\* notifications.map(n => n.id === notificationId ? {...n, is_read: true} : n)
MarkReadList(list, id) ==
    [i \in 1..Len(list) |-> IF list[i].id = id THEN [list[i] EXCEPT !.read = TRUE]
                                               ELSE list[i]]

\* The decrement without its floor: what C7 is tested against.
DecrementUnfloored(prev) == prev - 1

\* Math.max(0, prev - 1)
MarkReadCount(prev) == IF prev - 1 > 0 THEN prev - 1 ELSE 0

\* A mark-all that leaves the flags alone: what C9 is tested against.
FlagsKept(list) == list

\* notifications.map(n => ({...n, is_read: true}))
MarkAllList(list) == [i \in 1..Len(list) |-> [list[i] EXCEPT !.read = TRUE]]

\* setUnreadCount(0)
MarkAllCount == 0

\* The layout mounts the bell for a logged-in user; the polling effect
\* calls fetchUnreadCount() at once.
BellMount ==
    /\ user # NoUser
    /\ ~bellMounted
    /\ bellMounted' = TRUE
    /\ bellCalls' = bellCalls (+) SetToBag({Sent("count", 0, <<>>)})
    /\ UNCHANGED <<bellNotifs, unreadCount, isOpen, bellLoading, lastBell>>
    /\ UNCHANGED <<authVars, wsVars, cacheVars, srvVars, chatVars, viewVars>>

\* A bell without the interval, which polls at mount only: what C19 is
\* tested against.
MountPollOnly(cap) == FALSE /\ UNCHANGED vars

\* setInterval(fetchUnreadCount, 30000)
PollTick(cap) ==
    /\ bellMounted
    /\ CanCall(cap)
    /\ bellCalls' = bellCalls (+) SetToBag({Sent("count", 0, <<>>)})
    /\ UNCHANGED <<bellMounted, bellNotifs, unreadCount, isOpen, bellLoading, lastBell>>
    /\ UNCHANGED <<authVars, wsVars, cacheVars, srvVars, chatVars, viewVars>>

\* The bell button, the X button or a click outside: setIsOpen; the effect
\* on isOpen calls fetchNotifications() when the dropdown opened.
ToggleOpen(cap) ==
    /\ bellMounted
    /\ isOpen' = ~isOpen
    /\ IF ~isOpen
       THEN /\ CanCall(cap)
            /\ bellLoading' = TRUE
            /\ bellCalls' = bellCalls (+) SetToBag({Sent("list", 0, <<>>)})
       ELSE UNCHANGED <<bellLoading, bellCalls>>
    /\ UNCHANGED <<bellMounted, bellNotifs, unreadCount, lastBell>>
    /\ UNCHANGED <<authVars, wsVars, cacheVars, srvVars, chatVars, viewVars>>

\* handleNotificationClick on the i-th entry shown: handleMarkAsRead when it
\* is unread; nav: the entry relates to a task, the dropdown closes.
ClickNotification(cap, i, nav) ==
    /\ bellMounted /\ isOpen /\ ~bellLoading
    /\ i \in 1..Len(bellNotifs)
    /\ IF ~bellNotifs[i].read
       THEN /\ CanCall(cap)
            /\ bellCalls' = bellCalls (+)
                               SetToBag({Sent("markRead", bellNotifs[i].id, bellNotifs)})
       ELSE /\ nav
            /\ UNCHANGED bellCalls
    /\ isOpen' = IF nav THEN FALSE ELSE isOpen
    /\ UNCHANGED <<bellMounted, bellNotifs, unreadCount, bellLoading, lastBell>>
    /\ UNCHANGED <<authVars, wsVars, cacheVars, srvVars, chatVars, viewVars>>

\* handleMarkAllRead: the button is shown while unreadCount > 0.
ClickMarkAll(cap) ==
    /\ bellMounted /\ isOpen /\ unreadCount > 0
    /\ CanCall(cap)
    /\ bellCalls' = bellCalls (+) SetToBag({Sent("markAll", 0, bellNotifs)})
    /\ UNCHANGED <<bellMounted, bellNotifs, unreadCount, isOpen, bellLoading, lastBell>>
    /\ UNCHANGED <<authVars, wsVars, cacheVars, srvVars, chatVars, viewVars>>

\* The server answers call: with an error, or by doing what was asked.
Answer(call, ok) ==
    IF ~ok THEN [call EXCEPT !.st = "fail"]
    ELSE [call EXCEPT !.st = "ok",
                      !.n = IF call.kind = "count" THEN SrvUnread ELSE @,
                      !.list = IF call.kind = "list" THEN SrvList ELSE @]

BellServe(call, ok) ==
    /\ call.st = "sent"
    /\ bellCalls' = (bellCalls (-) SetToBag({call})) (+) SetToBag({Answer(call, ok)})
    /\ srvNotifs' =
          [n \in NotifIds |->
             IF /\ ok
                /\ srvNotifs[n] = "unread"
                /\ \/ call.kind = "markAll"
                   \/ call.kind = "markRead" /\ call.n = n
             THEN "read" ELSE srvNotifs[n]]
    /\ UNCHANGED <<srvConvs, srvMsgs, pushed>>
    /\ UNCHANGED <<bellMounted, bellNotifs, unreadCount, isOpen, bellLoading, lastBell>>
    /\ UNCHANGED <<authVars, wsVars, cacheVars, chatVars, viewVars>>

\* The continuation of call after its await: fetchUnreadCount,
\* fetchNotifications, handleMarkAsRead or handleMarkAllRead.  lastBell
\* keeps, for a mark-read, the counter it found and, for the two marking
\* handlers, whether the array they closed over was still the current one.
BellDeliver(call) ==
    LET ok == call.st = "ok"
        marks == call.kind \in {"markRead", "markAll"}
    IN
    /\ call.st \in {"ok", "fail"}
    /\ bellCalls' = bellCalls (-) SetToBag({call})
    /\ lastBell' = [kind |-> call.kind, ok |-> ok,
                    before |-> IF call.kind = "markRead" THEN unreadCount ELSE 0,
                    stale |-> marks /\ call.list # bellNotifs]
    /\ unreadCount' =
         IF ~ok THEN unreadCount
         ELSE IF call.kind = "count" THEN call.n
         ELSE IF call.kind = "markRead" THEN MarkReadCount(unreadCount)
         ELSE IF call.kind = "markAll" THEN MarkAllCount
         ELSE unreadCount
    /\ bellNotifs' =
         IF ~ok THEN bellNotifs
         ELSE IF call.kind = "list" THEN call.list
         ELSE IF call.kind = "markRead" THEN MarkReadList(call.list, call.n)
         ELSE IF call.kind = "markAll" THEN MarkAllList(call.list)
         ELSE bellNotifs
    /\ bellLoading' = IF call.kind = "list" THEN FALSE ELSE bellLoading
    /\ UNCHANGED <<bellMounted, isOpen>>
    /\ UNCHANGED <<authVars, wsVars, cacheVars, srvVars, chatVars, viewVars>>

\* --------------------------------------------------------------- chat page
\* A REST call of the page, one element of the bag chatCalls.  conv: the
\* conversation the call is about (for a send, selectedConv as the handler
\* closed over it).  flag: shouldPin of a pin call, is_group of a create
\* call.  n: the message or conversation the server answered with; pinned:
\* is_pinned of that conversation.  list: the list a fetch was answered with.
ChatSent(kind, conv, flag) ==
    [kind |-> kind, st |-> "sent", conv |-> conv, flag |-> flag,
     n |-> 0, pinned |-> FALSE, list |-> <<>>]

ChatCalls == BagToSet(chatCalls)

CanChatCall(cap) == BagCardinality(chatCalls) < cap


ToastIdle == chatToast = "none"

\* The toast of the continuation of call: toast.error of its catch block,
\* toast.success where the handler has one, else the toast shown before.
ToastOf(call, before) ==
    IF call.st = "fail"
    THEN CASE call.kind = "convs" -> "Failed to load conversations"
           [] call.kind = "msgs" -> "Failed to load messages"
           [] call.kind = "send" -> "Failed to send message"
           [] call.kind = "create" /\ call.flag -> "Failed to create group"
           [] call.kind = "create" /\ ~call.flag -> "Failed to create conversation"
           [] call.kind = "pin" -> "Failed to pin conversation"
           [] OTHER -> "Failed to upload file"
    ELSE CASE call.kind = "create" /\ call.flag -> "Group created"
           [] call.kind = "create" /\ ~call.flag -> "Conversation created"
           [] call.kind = "pin" /\ call.flag -> "Conversation pinned"
           [] call.kind = "pin" /\ ~call.flag -> "Conversation unpinned"
           [] call.kind = "attach" -> "File sent"
           [] OTHER -> before

\* The kinds of call that post a message: handleSendMessage, and the second
\* step of handleFileUpload.
Posts(call) == call.kind \in {"send", "attach"}

\* A handler that appends whatever the answer was: what C26 is tested
\* against.
CommitsAnyway(call) == TRUE

\* addLocalMessage is reached: it follows the await inside the try block.
Commits(call) == call.st = "ok"

ChatInit ==
    /\ chatMounted = FALSE
    /\ conversations = <<>>
    /\ selectedConv = NoConv
    /\ messages = <<>>
    /\ chatCalls = EmptyBag

Ids(list) == {list[i] : i \in 1..Len(list)}

\* The body of the merge effect: prev => [...prev, ...wsMessages.filter(m =>
\* !existingIds.has(m.id))], existingIds being the ids of prev.
Merge(prev, wsMessages) ==
    LET fresh(m) == m \notin Ids(prev)
    IN prev \o SelectSeq(wsMessages, fresh)

\* The merge effect, run after a render in which chatMessages or
\* selectedConv changed.
MergeEffect(prev, conv, chat) ==
    IF chatMounted /\ conv # NoConv /\ chat[conv] # <<>>
    THEN Merge(prev, chat[conv]) ELSE prev

\* .sort((a, b) => a.is_pinned && !b.is_pinned ? -1 : !a.is_pinned &&
\* b.is_pinned ? 1 : 0): a stable sort, the pinned entries first.
PinnedFirstSort(list) ==
    LET isPinned(c) == c.pinned
        notPinned(c) == ~c.pinned
    IN SelectSeq(list, isPinned) \o SelectSeq(list, notPinned)

\* prev.map(c => c.id === convId ? {...c, is_pinned: shouldPin} : c).sort(...)
PinList(list, convId, shouldPin) ==
    PinnedFirstSort([i \in 1..Len(list) |->
                       IF list[i].id = convId THEN [list[i] EXCEPT !.pinned = shouldPin]
                                              ELSE list[i]])

\* setConversations in createDirectMessage (which keeps the list when it
\* holds the conversation already) and in createGroupChat.
CreatedList(list, conv, isGroup) ==
    IF ~isGroup /\ \E i \in 1..Len(list) : list[i].id = conv.id
    THEN list ELSE <<conv>> \o list

\* GET /chat/conversations as the server answers it: the pinned
\* conversations first, the newer before the older.
SrvConvsOf(status) ==
    LET S == {c \in ConvIds : srvConvs[c] = status}
        f[k \in 0..MaxConv] ==
            IF k = 0 THEN <<>>
            ELSE IF k \in S THEN <<[id |-> k, pinned |-> status = "pinned"]>> \o f[k - 1]
            ELSE f[k - 1]
    IN f[MaxConv]

SrvConvList == SrvConvsOf("pinned") \o SrvConvsOf("plain")

\* GET /chat/conversations/{id}/messages: the messages of the conversation,
\* oldest first.
SrvMessages(conv) ==
    LET inConv(m) == srvMsgs[m].conv = conv
    IN SelectSeq([m \in 1..Len(srvMsgs) |-> m], inConv)

\* The route of the page is entered: the mount effect calls
\* fetchConversations().
ChatMount ==
    /\ user # NoUser
    /\ ~chatMounted
    /\ chatMounted' = TRUE
    /\ chatCalls' = chatCalls (+) SetToBag({ChatSent("convs", NoConv, FALSE)})
    /\ UNCHANGED <<conversations, selectedConv, messages>>
    /\ UNCHANGED <<authVars, wsVars, cacheVars, srvVars, bellVars, viewVars>>

\* selectConversation(conv) on the i-th entry of the list.
SelectConversation(cap, i) ==
    /\ chatMounted
    /\ i \in 1..Len(conversations)
    /\ CanChatCall(cap)
    /\ selectedConv' = conversations[i].id
    /\ chatCalls' = chatCalls (+) SetToBag({ChatSent("msgs", conversations[i].id, FALSE)})
    /\ messages' = IF selectedConv' # selectedConv
                   THEN MergeEffect(messages, selectedConv', chatMessages)
                   ELSE messages
    /\ UNCHANGED <<chatMounted, conversations>>
    /\ UNCHANGED <<authVars, wsVars, cacheVars, srvVars, bellVars, viewVars>>

\* handleSendMessage with a non-blank text.
SendMessage(cap) ==
    /\ chatMounted
    /\ selectedConv # NoConv
    /\ CanChatCall(cap)
    /\ chatCalls' = chatCalls (+) SetToBag({ChatSent("send", selectedConv, FALSE)})
    /\ UNCHANGED <<chatMounted, conversations, selectedConv, messages>>
    /\ UNCHANGED <<authVars, wsVars, cacheVars, srvVars, bellVars, viewVars>>

\* createDirectMessage(userId) or, with a name and two members chosen,
\* createGroupChat().
CreateConversation(cap, isGroup) ==
    /\ chatMounted
    /\ CanChatCall(cap)
    /\ chatCalls' = chatCalls (+) SetToBag({ChatSent("create", NoConv, isGroup)})
    /\ UNCHANGED <<chatMounted, conversations, selectedConv, messages>>
    /\ UNCHANGED <<authVars, wsVars, cacheVars, srvVars, bellVars, viewVars>>

\* The pin button of the i-th entry: pinConversation(conv.id, !conv.is_pinned).
PinConversation(cap, i) ==
    /\ chatMounted
    /\ i \in 1..Len(conversations)
    /\ CanChatCall(cap)
    /\ chatCalls' = chatCalls (+)
                       SetToBag({ChatSent("pin", conversations[i].id, ~conversations[i].pinned)})
    /\ UNCHANGED <<chatMounted, conversations, selectedConv, messages>>
    /\ UNCHANGED <<authVars, wsVars, cacheVars, srvVars, bellVars, viewVars>>

\* The lowest conversation id the server has not used, or NoConv.
NewConv ==
    IF \E c \in ConvIds : srvConvs[c] = "absent"
    THEN CHOOSE c \in ConvIds :
           /\ srvConvs[c] = "absent"
           /\ \A d \in ConvIds : d < c => srvConvs[d] # "absent"
    ELSE NoConv

\* The server answers call: with an error, or by doing what was asked.  A
\* create is answered with a new conversation c or, for a direct message to
\* a user there is a conversation with already, with that conversation.
ChatAnswer(call, ok, c) ==
    IF ~ok THEN [call EXCEPT !.st = "fail"]
    ELSE [call EXCEPT
            !.st = "ok",
            !.n = IF Posts(call) THEN Len(srvMsgs) + 1
                  ELSE IF call.kind = "create" THEN c ELSE @,
            !.pinned = IF call.kind = "create" THEN srvConvs[c] = "pinned" ELSE @,
            !.list = IF call.kind = "convs" THEN SrvConvList
                     ELSE IF call.kind = "msgs" THEN SrvMessages(call.conv) ELSE @]

ChatServe(call, ok, c) ==
    /\ call.st = "sent"
    /\ IF call.kind = "create" /\ ok
       THEN /\ c \in ConvIds
            /\ \/ c = NewConv
               \/ ~call.flag /\ srvConvs[c] # "absent"
       ELSE c = call.conv
    /\ (Posts(call) /\ ok) => Len(srvMsgs) < MaxMsg
    /\ chatCalls' = (chatCalls (-) SetToBag({call})) (+) SetToBag({ChatAnswer(call, ok, c)})
    /\ srvMsgs' = IF Posts(call) /\ ok THEN Append(srvMsgs, [conv |-> call.conv, sender |-> Me])
                  ELSE srvMsgs
    /\ srvConvs' =
         IF ~ok THEN srvConvs
         ELSE IF call.kind = "create" /\ srvConvs[c] = "absent"
              THEN [srvConvs EXCEPT ![c] = "plain"]
         ELSE IF call.kind = "pin"
              THEN [srvConvs EXCEPT ![call.conv] = IF call.flag THEN "pinned" ELSE "plain"]
         ELSE srvConvs
    /\ UNCHANGED <<srvNotifs, pushed>>
    /\ UNCHANGED <<chatMounted, conversations, selectedConv, messages>>
    /\ UNCHANGED <<authVars, wsVars, cacheVars, bellVars, viewVars>>

\* The continuation of call after its await: fetchConversations,
\* fetchMessages, handleSendMessage, createDirectMessage / createGroupChat
\* (which go on to fetchMessages), pinConversation or handleFileUpload
\* (which, after the upload, goes on to post the message), and the merge
\* effect where the continuation changed chatMessages or selectedConv.
ChatDeliver(call) ==
    LET ok == call.st = "ok"
        created == [id |-> call.n, pinned |-> call.pinned]
        chat == IF Commits(call) /\ Posts(call)
                THEN [chatMessages EXCEPT ![call.conv] = Append(@, call.n)]
                ELSE chatMessages
        sel == IF ok /\ call.kind = "create" THEN call.n ELSE selectedConv
        shown == IF ok /\ call.kind = "msgs" THEN call.list ELSE messages
    IN
    /\ call.st \in {"ok", "fail"}
    /\ chatCalls' =
         IF ok /\ call.kind = "create"
         THEN (chatCalls (-) SetToBag({call})) (+) SetToBag({ChatSent("msgs", call.n, FALSE)})
         ELSE IF ok /\ call.kind = "upload"
         THEN (chatCalls (-) SetToBag({call})) (+) SetToBag({ChatSent("attach", call.conv, FALSE)})
         ELSE chatCalls (-) SetToBag({call})
    /\ chatToast' = ToastOf(call, chatToast)
    /\ conversations' =
         IF ~ok THEN conversations
         ELSE IF call.kind = "convs" THEN call.list
         ELSE IF call.kind = "create" THEN CreatedList(conversations, created, call.flag)
         ELSE IF call.kind = "pin" THEN PinList(conversations, call.conv, call.flag)
         ELSE conversations
    /\ chatMessages' = chat
    /\ selectedConv' = sel
    /\ messages' = IF chat # chatMessages \/ sel # selectedConv
                   THEN MergeEffect(shown, sel, chat)
                   ELSE shown
    /\ UNCHANGED <<notifications, notificationCache>>
    /\ UNCHANGED chatMounted
    /\ UNCHANGED <<authVars, wsVars, srvVars, bellVars, uploadVars, alertVars, typingVars>>

\* Another participant posts a message to conversation c.
PeerMessage(c) ==
    /\ srvConvs[c] # "absent"
    /\ Len(srvMsgs) < MaxMsg
    /\ srvMsgs' = Append(srvMsgs, [conv |-> c, sender |-> Peer])
    /\ UNCHANGED <<srvNotifs, srvConvs, pushed>>
    /\ UNCHANGED <<authVars, wsVars, cacheVars, bellVars, chatVars, viewVars>>

\* The user posts a message to conversation c from another tab or device.
OwnMessage(c) ==
    /\ srvConvs[c] # "absent"
    /\ Len(srvMsgs) < MaxMsg
    /\ srvMsgs' = Append(srvMsgs, [conv |-> c, sender |-> Me])
    /\ UNCHANGED <<srvNotifs, srvConvs, pushed>>
    /\ UNCHANGED <<authVars, wsVars, cacheVars, bellVars, chatVars, viewVars>>

\* setChatMessages of ws.onmessage, case 'chat_message'.
OnChatMessage(chat, conv, m) == [chat EXCEPT ![conv] = Append(@, m)]

\* ws.onmessage, case 'chat_message', on open socket k: the server pushes
\* message m, once, to the participants of its conversation; the merge
\* effect of the page follows.
PushChat(k, m) ==
    /\ socks[k].st = "open"
    /\ m \in 1..Len(srvMsgs)
    /\ m \notin pushed
    /\ pushed' = pushed \cup {m}
    /\ chatMessages' = OnChatMessage(chatMessages, srvMsgs[m].conv, m)
    /\ messages' = MergeEffect(messages, selectedConv, chatMessages')
    /\ lastFrame' = Frame("chat_message", m,
                          srvMsgs[m].sender # socks[k].cuser /\ SoundEnabled(soundPref))
    /\ UNCHANGED <<soundPref, typingUsers, readReceipts, appMounted>>
    /\ UNCHANGED <<notifications, notificationCache>>
    /\ UNCHANGED <<srvNotifs, srvConvs, srvMsgs>>
    /\ UNCHANGED <<chatMounted, conversations, selectedConv, chatCalls>>
    /\ UNCHANGED <<authVars, wsVars, bellVars, uploadVars, typingVars, toastVars>>

ChatNext(cap) ==
    \/ ChatMount
    \/ \E i \in ConvIds : SelectConversation(cap, i)
    \/ SendMessage(cap)
    \/ \E isGroup \in BOOLEAN : CreateConversation(cap, isGroup)
    \/ \E i \in ConvIds : PinConversation(cap, i)
    \/ \E call \in ChatCalls, ok \in BOOLEAN, c \in ConvIds \cup {NoConv} :
          ChatServe(call, ok, c)
    \/ \E call \in ChatCalls : ChatDeliver(call)

\* ------------------------------------------------------------- file upload
\* const allowedTypes = ['.pdf', '.jpg', '.jpeg', '.png', '.doc', '.docx']
AllowedTypes ==
    { <<".", "p", "d", "f">>, <<".", "j", "p", "g">>, <<".", "j", "p", "e", "g">>,
      <<".", "p", "n", "g">>, <<".", "d", "o", "c">>, <<".", "d", "o", "c", "x">> }

\* 10 * 1024 * 1024
MaxFileSize == 10 * 1024 * 1024

\* String.prototype.lastIndexOf: the 0-based index of the last ch, or -1.
LastIndexOf(str, ch) ==
    LET at == {i \in 1..Len(str) : str[i] = ch}
    IN IF at = {} THEN -1 ELSE (CHOOSE i \in at : \A j \in at : j <= i) - 1

\* String.prototype.substring(from): a negative index counts as 0.
Substring(str, from) ==
    SubSeq(str, (IF from < 0 THEN 0 ELSE from) + 1, Len(str))

\* toLowerCase of one character, for the letters file names are drawn from.
Lower(ch) ==
    CASE ch = "P" -> "p" [] ch = "D" -> "d" [] ch = "F" -> "f"
      [] ch = "J" -> "j" [] ch = "G" -> "g" [] ch = "X" -> "x"
      [] OTHER -> ch

\* A comparison that keeps the case: what C16 is tested against.
CaseKept(str) == str

\* String.prototype.toLowerCase
ToLowerCase(str) == [i \in 1..Len(str) |-> Lower(str[i])]

\* file.name.substring(file.name.lastIndexOf('.')).toLowerCase()
FileExt(name) == ToLowerCase(Substring(name, LastIndexOf(name, ".")))

\* handleFileUpload of the Chat page up to its first await: the type is
\* tested first, then the size.
ChatVerdict(name, size) ==
    IF FileExt(name) \notin AllowedTypes THEN "type"
    ELSE IF size > MaxFileSize THEN "size"
    ELSE "upload"

\* handleFileUpload of TaskDetail up to its first await: the size is tested
\* first, then the type.
TaskVerdict(name, size) ==
    IF size > MaxFileSize THEN "size"
    ELSE IF FileExt(name) \notin AllowedTypes THEN "type"
    ELSE "upload"

\* The file names and sizes the inputs are tried with: a stem of letters
\* and dots, then a last part.
Stems == UNION {[1..n -> {"a", "."}] : n \in 0..MaxStem}

Tails ==
    AllowedTypes \cup
    { <<".", "P", "D", "F">>, <<".", "J", "p", "g">>, <<".", "D", "O", "C", "X">>,
      <<".", "e", "x", "e">>, <<".", "p", "d">>, <<".", "p", "d", "f", "x">>,
      <<".", "p", "d", "f", ".">>, <<"p", "d", "f">>, <<"d", "o", "c">>,
      <<".">>, <<"a">> }

FileNames == {stem \o tail : stem \in Stems, tail \in Tails}

FileSizes == {0, MaxFileSize - 1, MaxFileSize, MaxFileSize + 1, 11 * 1024 * 1024}

UploadFree ==
    /\ uploadPage = "none"
    /\ uploadToast = "none"
    /\ uploadCalls = 0

UploadIdle ==
    /\ fileName = <<"a">>
    /\ fileSize = 0
    /\ UploadFree

UploadInit ==
    /\ fileName \in FileNames
    /\ fileSize \in FileSizes
    /\ UploadFree

\* What handleFileUpload leaves after verdict v.
Uploaded(page, v) ==
    /\ uploadPage' = page
    /\ uploadToast' = IF v = "upload" THEN "none" ELSE v
    /\ uploadCalls' = IF v = "upload" THEN uploadCalls + 1 ELSE uploadCalls
    /\ UNCHANGED <<fileName, fileSize>>
    /\ UNCHANGED <<authVars, wsVars, cacheVars, srvVars, bellVars, alertVars, typingVars, toastVars>>

\* onChange of the file input of the Chat page, which is rendered while a
\* conversation is selected.
ChatFileChosen ==
    /\ uploadPage = "none"
    /\ chatMounted /\ selectedConv # NoConv
    /\ Uploaded("chat", ChatVerdict(fileName, fileSize))
    /\ chatCalls' = IF ChatVerdict(fileName, fileSize) = "upload"
                     THEN chatCalls (+) SetToBag({ChatSent("upload", selectedConv, FALSE)})
                     ELSE chatCalls
    /\ UNCHANGED <<chatMounted, conversations, selectedConv, messages>>

\* onChange of the file input of TaskDetail.
TaskFileChosen ==
    /\ uploadPage = "none"
    /\ user # NoUser
    /\ Uploaded("task", TaskVerdict(fileName, fileSize))
    /\ UNCHANGED chatVars

\* ------------------------------------------------------------ specifications
AuthNext(cap, maxDepth) ==
    \/ Login
    \/ Logout(cap)
    \/ AuthEffect(cap)
    \/ IssueRequest(cap)
    \/ \E s \in ReqIds : RespondOk(s)
    \/ \E s \in ReqIds : RespondRefresh(s, maxDepth)
    \/ \E s \in ReqIds, o \in {"unauthorized", "error"} : RespondReject(s, o)

WsNext ==
    \/ WsEffect
    \/ \E k \in SockIds : WsOpen(k)
    \/ \E k \in SockIds : WsClose(k)
    \/ \E t \in TimerIds : TimerFire(t)

BellNext(cap) ==
    \/ BellMount
    \/ PollTick(cap)
    \/ ToggleOpen(cap)
    \/ \E i \in 1..MaxNotif, nav \in BOOLEAN : ClickNotification(cap, i, nav)
    \/ ClickMarkAll(cap)
    \/ \E call \in Calls, ok \in BOOLEAN : BellServe(call, ok)
    \/ \E call \in Calls : BellDeliver(call)

Init == AuthInit /\ WsInit /\ CacheInit /\ SrvInit /\ BellInit /\ ChatInit /\ UploadIdle /\ AlertIdle /\ TypingIdle /\ ToastIdle

\* The state in which the layout, and with it the bell, is first mounted:
\* a session just logged in from empty storage.
AuthSession(expose) ==
    /\ exposeToken = expose
    /\ user = Me
    /\ lsToken = 2 /\ token = 2 /\ axiosAuth = 2
    /\ lsRefresh = 1 /\ refreshToken = 1
    /\ authDeps = <<>> /\ icRT = NoToken
    /\ reqs = [s \in ReqIds |-> FreeReq]
    /\ nextTok = 3 /\ teardownRuns = 0 /\ lastRefresh = "none"
    /\ revokes = FALSE /\ lastLogout = "none"

SessionInit(expose) ==
    /\ AuthSession(expose)
    /\ WsInit /\ CacheInit /\ SrvInit /\ BellInit /\ ChatInit /\ UploadIdle /\ AlertIdle /\ TypingIdle /\ ToastIdle

\* The session store alone.
SpecAuth == Init /\ [][AuthNext(MaxReq, MaxDepth)]_vars

\* The session store with the revoking logout().
RevokingInit ==
    AuthStore(TRUE) /\ WsInit /\ CacheInit /\ SrvInit /\ BellInit /\ ChatInit /\ UploadIdle /\ AlertIdle /\ TypingIdle /\ ToastIdle

SpecLogout == RevokingInit /\ [][AuthNext(MaxReq, MaxDepth)]_vars

\* The session store and the channel manager it drives.
SpecChannel == Init /\ [][AuthNext(ChanReq, ChanDepth) \/ WsNext]_vars

\* The same from a signed-in session, with a page that reports typing.
SpecTyping ==
    SessionInit(TRUE)
         /\ [][\/ AuthNext(ChanReq, ChanDepth)
               \/ WsNext
               \/ \E c \in ConvIds, b \in BOOLEAN : SendTyping(c, b)]_vars

\* The same, with what the runtime guarantees: a pending effect runs, a
\* timer that is set fires, a socket that was told to close gets its close
\* event.  Whether the server accepts or drops a connection is left open.
ChannelFairness ==
    /\ WF_vars(WsEffect)
    /\ \A t \in TimerIds : WF_vars(TimerFire(t))
    /\ \A k \in SockIds : WF_vars(socks[k].st = "closing" /\ WsClose(k))

SpecChannelLive == SpecChannel /\ ChannelFairness

\* A session with the Chat page open on a conversation (created, selected,
\* its messages fetched) and a file picked for one of the two file inputs.
UploadSessionInit ==
    /\ AuthSession(FALSE)
    /\ WsInit /\ CacheInit /\ BellInit
    /\ srvNotifs = [n \in NotifIds |-> "absent"]
    /\ srvConvs = [c \in ConvIds |-> IF c = 1 THEN "plain" ELSE "absent"]
    /\ srvMsgs = <<>>
    /\ pushed = {}
    /\ chatMounted = TRUE
    /\ conversations = <<[id |-> 1, pinned |-> FALSE]>>
    /\ selectedConv = 1
    /\ messages = <<>>
    /\ chatCalls = EmptyBag
    /\ UploadInit /\ AlertIdle /\ TypingIdle /\ ToastIdle

\* The two file inputs, each tried with every file.
SpecUpload == UploadSessionInit /\ [][ChatFileChosen \/ TaskFileChosen]_vars

\* A session whose sound preference is any of the three, with a
\* conversation the user takes part in.
AlertSessionInit ==
    /\ AuthSession(TRUE)
    /\ WsInit /\ CacheInit /\ BellInit /\ ChatInit /\ UploadIdle /\ TypingIdle /\ ToastIdle
    /\ srvNotifs = [n \in NotifIds |-> "absent"]
    /\ srvConvs = [c \in ConvIds |-> IF c = 1 THEN "plain" ELSE "absent"]
    /\ srvMsgs = <<>>
    /\ pushed = {}
    /\ soundPref \in SoundPrefs
    /\ lastFrame = NoFrame
    /\ typingUsers = [c \in ConvIds |-> NoUser]
    /\ readReceipts = [c \in ConvIds |-> NoReceipt]
    /\ appMounted = TRUE

\* The frames the provider receives in one session.
SpecAlert ==
    AlertSessionInit
         /\ [][\/ WsEffect
               \/ \E k \in SockIds : WsOpen(k)
               \/ \E n \in NotifIds : ServerNotify(n)
               \/ \E k \in SockIds, n \in NotifIds : PushNotification(k, n)
               \/ ClearNotificationCache
               \/ \E c \in ConvIds : PeerMessage(c)
               \/ \E c \in ConvIds : OwnMessage(c)
               \/ \E k \in SockIds, m \in MsgIds : PushChat(k, m)
               \/ \E k \in SockIds, c \in ConvIds, b \in BOOLEAN : PushTyping(k, c, Peer, b)
               \/ \E k \in SockIds, c \in ConvIds : PushReadReceipt(k, c, Peer, {1})
               \/ \E k \in SockIds : PushPong(k)]_vars

\* A session with two conversations the user takes part in.
FramesSessionInit ==
    /\ AuthSession(TRUE)
    /\ WsInit /\ CacheInit /\ BellInit /\ ChatInit /\ UploadIdle /\ TypingIdle /\ AlertIdle /\ ToastIdle
    /\ srvNotifs = [n \in NotifIds |-> "absent"]
    /\ srvConvs = [c \in ConvIds |-> "plain"]
    /\ srvMsgs = <<>>
    /\ pushed = {}

\* What ws.onmessage does with each kind of frame, while the tree is
\* mounted.
FramesNext ==
    /\ appMounted
    /\ \/ WsEffect
       \/ \E k \in SockIds : WsOpen(k)
       \/ \E n \in NotifIds : ServerNotify(n)
       \/ \E k \in SockIds, n \in NotifIds : PushNotification(k, n)
       \/ \E k \in SockIds, c \in ConvIds, u \in Typers, b \in BOOLEAN :
             PushTyping(k, c, u, b)
       \/ \E k \in SockIds, c \in ConvIds, u \in Typers, ids \in SUBSET MsgIds \ {{}} :
             PushReadReceipt(k, c, u, ids)
       \/ \E k \in SockIds, type \in DroppedTypes : PushDropped(k, type)
       \/ \E k \in SockIds, type \in UpdaterTypes : PushNoPayload(k, type)

SpecFrames == FramesSessionInit /\ [][FramesNext]_vars

\* The same, with what the runtime guarantees: a pending effect runs.  No
\* frame is owed by the server or by the other participants, and the
\* provider sets no timer of its own on a typing frame.
FramesFairness == WF_vars(appMounted /\ WsEffect)

SpecFramesLive == SpecFrames /\ FramesFairness

\* A session with the Chat page open on a conversation and a file that
\* passes the validation picked for its file input.
SendSessionInit ==
    /\ AuthSession(TRUE)
    /\ WsInit /\ CacheInit /\ BellInit /\ AlertIdle /\ TypingIdle /\ ToastIdle
    /\ srvNotifs = [n \in NotifIds |-> "absent"]
    /\ srvConvs = [c \in ConvIds |-> IF c = 1 THEN "plain" ELSE "absent"]
    /\ srvMsgs = <<>>
    /\ pushed = {}
    /\ chatMounted = TRUE
    /\ conversations = <<[id |-> 1, pinned |-> FALSE]>>
    /\ selectedConv = 1
    /\ messages = <<>>
    /\ chatCalls = EmptyBag
    /\ fileName = <<"a", ".", "p", "d", "f">>
    /\ fileSize = 2 * 1024 * 1024
    /\ UploadFree

\* Sending messages and an attachment in that conversation, with the push
\* channel.
SpecSend ==
    SendSessionInit
         /\ [][\/ WsEffect
               \/ \E k \in SockIds : WsOpen(k)
               \/ \E c \in ConvIds : PeerMessage(c)
               \/ \E k \in SockIds, m \in MsgIds : PushChat(k, m)
               \/ SendMessage(MaxChatCalls)
               \/ ChatFileChosen
               \/ \E call \in ChatCalls, ok \in BOOLEAN : ChatServe(call, ok, call.conv)
               \/ \E call \in ChatCalls : ChatDeliver(call)]_vars

\* The notification bell of one session, against the server.
BellSessionInit == SessionInit(FALSE)

NotifSessionInit == SessionInit(TRUE)

SpecBell == BellSessionInit /\ [][(\E n \in NotifIds : ServerNotify(n)) \/ BellNext(MaxCalls)]_vars

\* The same, with what the runtime and the claim's premise guarantee: the
\* bell mounts, the interval timer keeps firing, polls keep being answered
\* successfully, every other request is answered one way or the other, and
\* continuations run.  What the user does is left open.
BellFairness ==
    /\ WF_vars(BellMount)
    /\ SF_vars(PollTick(MaxCalls))
    /\ SF_vars(\E call \in Calls : call.kind = "count" /\ BellServe(call, TRUE))
    /\ WF_vars(\E call \in Calls, ok \in BOOLEAN : call.kind # "count" /\ BellServe(call, ok))
    /\ WF_vars(\E call \in Calls : BellDeliver(call))

SpecBellLive == SpecBell /\ BellFairness

\* The Chat page of one session, with the push channel.
SpecChat ==
    NotifSessionInit
         /\ [][\/ WsEffect
               \/ \E k \in SockIds : WsOpen(k)
               \/ \E c \in ConvIds : PeerMessage(c)
               \/ \E k \in SockIds, m \in MsgIds : PushChat(k, m)
               \/ ChatNext(MaxChatCalls)]_vars

\* The pushed notifications of one session, with the bell beside them.
SpecNotif ==
    NotifSessionInit
         /\ [][\/ WsEffect
               \/ \E k \in SockIds : WsOpen(k)
               \/ \E n \in NotifIds : ServerNotify(n)
               \/ \E k \in SockIds, n \in NotifIds : PushNotification(k, n)
               \/ ClearNotificationCache
               \/ BellNext(PushCalls)]_vars

\* ------------------------------------------------------------------ claims

\* C1: a session whose refresh exchange fails is logged out exactly once:
\* the requests that failed with 401 share a single refresh call in flight,
\* and the logout side effects run once.
C1_SingleRefreshSingleLogout ==
    /\ RefreshInFlight <= 1
    /\ teardownRuns <= 1

SessionTornDown ==
    /\ token = NoToken
    /\ refreshToken = NoToken
    /\ lsToken = NoToken
    /\ lsRefresh = NoToken
    /\ user = NoUser

\* C2: whenever the refresh exchange has failed, whatever the failure (a 401
\* to the refresh call included), the session is torn down: credentials
\* removed from memory and storage, identity cleared; the failure starts no
\* further refresh call.
C2_RefreshFailureTearsDown ==
    lastRefresh = "failed" =>
        /\ SessionTornDown
        /\ RefreshInFlight = 0

ValidSession == user # NoUser /\ token # NoToken

\* C11: whenever a valid session exists, the channel manager comes to hold a
\* connection, open or being opened, addressed with the current access
\* credential (unless the session ends first).
C11_ValidSessionConnects ==
    ValidSession ~> (~ValidSession \/ \E k \in SockIds : Live(k) /\ socks[k].ctok = token)

C13_ReconnectsWhileValid ==
    (ValidSession /\ \A k \in SockIds : ~Live(k))
        ~> (~ValidSession \/ \E k \in SockIds : socks[k].st = "connecting")

\* The step retries the request of slot s: the refresh call it waited for
\* is gone and the call below it is dispatched again.
Retried(s) ==
    /\ reqs[s].depth > 0
    /\ reqs'[s].kind # "none"
    /\ reqs'[s].depth < reqs[s].depth

C15_LogoutClearsEverything ==
    [][/\ (lastLogout' # lastLogout /\ lastLogout' # "none") => SessionTornDown'
       /\ (\E s \in ReqIds : reqs[s].kind = "logout" /\ reqs'[s].kind = "none")
             => SessionTornDown'
       /\ (\/ user # NoUser /\ user' = NoUser
           \/ token # NoToken /\ token' = NoToken
           \/ refreshToken # NoToken /\ refreshToken' = NoToken
           \/ lsToken # NoToken /\ lsToken' = NoToken
           \/ lsRefresh # NoToken /\ lsRefresh' = NoToken) => SessionTornDown']_vars

C15_ClearedAfterFailedRevocation ==
    lastLogout = "failed" /\ SessionTornDown

Occurrences(list, n) == Cardinality({i \in 1..Len(list) : list[i] = n})

C6_CounterEqualsUnreadInCache == unreadCount = UnreadIn(bellNotifs)

\* C7: the unread counter is never negative, also when a mark-read
\* completes while the counter is already 0.
C7_CounterNeverNegative == unreadCount >= 0

C7_MarkReadAtZero ==
    /\ lastBell.kind = "markRead" /\ lastBell.ok
    /\ lastBell.before = 0
    /\ unreadCount = 0

C9_MarkAllClearsEverything ==
    (lastBell.kind = "markAll" /\ lastBell.ok)
        => /\ unreadCount = 0
           /\ \A i \in 1..Len(bellNotifs) : bellNotifs[i].read

C9_MarkAllAfterOverlap ==
    /\ lastBell.kind = "markAll" /\ lastBell.ok /\ lastBell.stale
    /\ bellNotifs # <<>>

\* C10: in the conversation list of the page every pinned conversation
\* precedes every unpinned one, after a fetch, a create, a pin or unpin, or
\* a send.
C10_PinnedBeforeUnpinned ==
    \A i, j \in 1..Len(conversations) :
        (conversations[i].pinned /\ ~conversations[j].pinned) => i < j

\* ---------------------------------------------------------------------- C16
\* The extension of a file name as a user reads it: what follows the last
\* dot, in lower case; a name without a dot has none.
ExtensionOf(name) ==
    LET dots == {i \in 1..Len(name) : name[i] = "."}
    IN IF dots = {} THEN <<"?">>
       ELSE LET last == CHOOSE i \in dots : \A j \in dots : j <= i
            IN [i \in 1..(Len(name) - last) |-> Lower(name[last + i])]

AllowList ==
    { <<"p", "d", "f">>, <<"j", "p", "g">>, <<"j", "p", "e", "g">>,
      <<"p", "n", "g">>, <<"d", "o", "c">>, <<"d", "o", "c", "x">> }

TenMB == 10485760

Acceptable == ExtensionOf(fileName) \in AllowList /\ fileSize <= TenMB

MarkReadCalled(n) ==
    \E call \in BagToSet(bellCalls') :
        /\ call.kind = "markRead" /\ call.st = "sent" /\ call.n = n
        /\ CopiesIn(call, bellCalls') > CopiesIn(call, bellCalls)

\* C17: mark-read is optimistic: the step that sends the mark-read call of
\* notification n, before any answer to it, leaves every entry n of the
\* bell's list read and the unread counter one lower, floored at zero.
C17_MarkReadOptimistic ==
    [][\A n \in NotifIds :
         MarkReadCalled(n) =>
            /\ \A i \in 1..Len(bellNotifs') : bellNotifs'[i].id = n => bellNotifs'[i].read
            /\ unreadCount' = IF unreadCount > 0 THEN unreadCount - 1 ELSE 0]_vars

\* ---------------------------------------------------------------------- C18
\* The frame handled in this step is one the alert is for: a notification
\* whose identifier was not delivered before, or a chat message of another
\* sender, with the sound preference unset or true.
AlertDue ==
    /\ soundPref \in {"unset", "true"}
    /\ \/ /\ lastFrame'.type = "notification"
          /\ lastFrame'.n \notin Ids(notifications)
       \/ /\ lastFrame'.type = "chat_message"
          /\ srvMsgs[lastFrame'.n].sender # user

C19_CounterConverges == <>[](unreadCount = SrvUnread)

\* A poll answered after the server marked a notification read was applied
\* while the continuation of that mark-read had not run yet.
C19_PollRacedMarkRead ==
    /\ lastBell.kind = "count" /\ lastBell.ok
    /\ unreadCount = SrvUnread
    /\ \E call \in Calls : call.kind = "markRead" /\ call.st = "ok"
    /\ \E n \in NotifIds : srvNotifs[n] = "unread"

\* ---------------------------------------------------------------------- C20
\* The channel is Connected: a connection of the provider is open.
Connected == \E k \in SockIds : socks[k].st = "open"

SupersededClose(k) ==
    /\ socks[k].st # "none" /\ socks'[k].st = "none"
    /\ wsRef # 0 /\ wsRef # k /\ Live(wsRef)

\* close() was called on the socket the ref holds and its close event has
\* not fired yet.
RefClosing == wsRef # 0 /\ socks[wsRef].st = "closing"

C21_LoggedOutUntilLogin ==
    [][(SessionTornDown /\ refreshToken' = NoToken) => SessionTornDown']_vars

\* ---------------------------------------------------------------------- C28
\* The continuation of a successful mark-read call runs in this step.
MarkReadDone ==
    \E call \in Calls :
        /\ call.kind = "markRead" /\ call.st = "ok"
        /\ CopiesIn(call, bellCalls') < CopiesIn(call, bellCalls)

\* C28: overlapping mark-read calls lose no update: when the continuation
\* of a mark-read runs, every entry of the bell's list that was read before
\* it is still listed as read after it.
C28_MarkReadKeepsOtherFlags ==
    [][MarkReadDone =>
         \A i \in 1..Len(bellNotifs) :
            bellNotifs[i].read =>
               \E j \in 1..Len(bellNotifs') :
                  bellNotifs'[j].id = bellNotifs[i].id /\ bellNotifs'[j].read]_vars

\* ---------------------------------------------------------------------- C25
\* Frame f cannot be parsed as an event: it is no JSON, or it carries a tag
\* that needs a payload and has none.
Unparseable(f) ==
    \/ f.type = "garbage"
    \/ f.type \in UpdaterTypes /\ f.conv = 0 /\ f.n = 0

ReadRecorded(c, u, m) == readReceipts[c].user = u /\ m \in readReceipts[c].ids

TypingHandled ==
    /\ lastFrame'.seq # lastFrame.seq
    /\ lastFrame'.type = "typing" /\ lastFrame'.conv # 0

\* C24: the typing slot of a conversation is what the last typing event for
\* that conversation made it: the event's user when is_typing, empty
\* otherwise; a typing event leaves the slots of the other conversations
\* alone, and nothing but a typing event changes a slot.
C24_LastTypingEventWins ==
    [][IF TypingHandled
       THEN \A c \in ConvIds :
              typingUsers'[c] =
                 IF c # lastFrame'.conv THEN typingUsers[c]
                 ELSE IF lastFrame'.on THEN lastFrame'.who ELSE NoUser
       ELSE typingUsers' = typingUsers]_vars

\* The slot of conversation 1 holds the second typer after the first one's
\* start, while the slot of conversation 2 holds another's.
C24_SlotOverwritten ==
    /\ lastFrame.type = "typing" /\ lastFrame.conv = 1
    /\ lastFrame.who = Peer2 /\ lastFrame.on
    /\ typingUsers[1] = Peer2
    /\ typingUsers[2] = Peer

FailedPostDone(call) ==
    /\ call.st = "fail"
    /\ call.kind \in {"send", "upload", "attach"}
    /\ CopiesIn(call, chatCalls') < CopiesIn(call, chatCalls)

\* Every message in list is one the server has created.
ServerMade(list) == \A i \in 1..Len(list) : list[i] \in 1..Len(srvMsgs)

\* C26: when a message post or a step of sending an attachment fails, the
\* page shows the failure and leaves the message cache and the list shown
\* as they were; no step puts a message into either that the server has not
\* created before.
C26_FailedSendLeavesNoTrace ==
    [][/\ \A call \in ChatCalls :
            FailedPostDone(call) =>
               /\ chatToast' = IF call.kind = "send" THEN "Failed to send message"
                               ELSE "Failed to upload file"
               /\ chatMessages' = chatMessages
               /\ messages' = messages
       /\ \A c \in ConvIds : ServerMade(chatMessages'[c])
       /\ ServerMade(messages')]_vars

\* Sending the attachment failed, at its upload or at its message post,
\* with a message of the conversation shown.
C26_AttachmentPostFailed ==
    /\ chatToast = "Failed to upload file"
    /\ uploadCalls = 1
    /\ chatCalls = EmptyBag
    /\ messages # <<>>

\* The composer of the Chat page: a keystroke announces typing in the selected
\* conversation and replaces the pending timeout by one for that conversation.
HandleTyping ==
    /\ chatMounted
    /\ selectedConv # NoConv
    /\ WsSend(selectedConv, TRUE)
    /\ typingTimeoutRef' = selectedConv
    /\ UNCHANGED <<authVars, wsVars, cacheVars, srvVars, bellVars, chatVars,
                   uploadVars, alertVars, toastVars>>

\* Two seconds without a keystroke: the pending timeout fires and announces
\* the stop for the conversation it was set for.
TypingTimeout ==
    /\ typingTimeoutRef # NoConv
    /\ WsSend(typingTimeoutRef, FALSE)
    /\ typingTimeoutRef' = NoConv
    /\ UNCHANGED <<authVars, wsVars, cacheVars, srvVars, bellVars, chatVars,
                   uploadVars, alertVars, toastVars>>

\* A signed-in session on the Chat page with two conversations listed and
\* none selected yet.
ComposerSessionInit ==
    /\ AuthSession(TRUE)
    /\ WsInit /\ CacheInit /\ BellInit /\ AlertIdle /\ TypingIdle /\ ToastIdle
    /\ UploadIdle
    /\ srvNotifs = [n \in NotifIds |-> "absent"]
    /\ srvConvs = [c \in ConvIds |-> "plain"]
    /\ srvMsgs = <<>>
    /\ pushed = {}
    /\ chatMounted = TRUE
    /\ conversations = <<[id |-> 1, pinned |-> FALSE], [id |-> 2, pinned |-> FALSE]>>
    /\ selectedConv = NoConv
    /\ messages = <<>>
    /\ chatCalls = EmptyBag

SpecComposer ==
    ComposerSessionInit
         /\ [][\/ WsEffect
               \/ \E k \in SockIds : WsOpen(k)
               \/ \E k \in SockIds : WsClose(k)
               \/ \E i \in 1..MaxConv : SelectConversation(MaxChatCalls, i)
               \/ SendMessage(MaxChatCalls)
               \/ \E call \in ChatCalls, ok \in BOOLEAN : ChatServe(call, ok, call.conv)
               \/ \E call \in ChatCalls : ChatDeliver(call)
               \/ HandleTyping
               \/ TypingTimeout]_vars

\* A timeout that is pending fires.
ComposerFairness == WF_vars(TypingTimeout)

SpecComposerLive == SpecComposer /\ ComposerFairness

\* ---------------------------------------------------------------------- C27
\* C27: every message in the list shown belongs to the conversation that is
\* selected.
C27_ShownBelongToSelected ==
    \A i \in 1..Len(messages) :
        /\ messages[i] \in 1..Len(srvMsgs)
        /\ srvMsgs[messages[i]].conv = selectedConv

====
